---- MODULE Spec2Model ----
(***************************************************************************)
(* State-machine model of audit_trail/watcher.py (AuditTrailWatcher).      *)
(*                                                                         *)
(* The host (Django) is represented by a small fixed schema: a model Post  *)
(* with a choice field `status`, and a model Comment with a nullable        *)
(* foreign key `post` (on_delete = SET_NULL, the case discussed in         *)
(* watcher.py lines 274-282); Post has the reverse manager `comment_set`.  *)
(* Every Python value is a string; None is "None".                         *)
(***************************************************************************)
EXTENDS Integers, Sequences, FiniteSets, TLC

VARIABLES
    DISABLE_AUDIT_TRAIL,  \* settings.DISABLE_AUDIT_TRAIL
    tracked_models,       \* AuditTrailWatcher.tracked_models (class attribute)
    audit,                \* model -> the watcher set as cls.audit
    receivers,            \* models whose five signal receivers are connected
    rows,                 \* the database table rows of the entities
    handle,               \* the model instance the host holds in memory
    deleting,             \* the Model.delete() call in progress, if any
    log,                  \* the AuditTrail table, in insertion order
    last                  \* the most recent signal dispatch and how it ended

vars == <<DISABLE_AUDIT_TRAIL, tracked_models, audit, receivers,
          rows, handle, deleting, log, last>>

(***************************************************************************)
(* Bounds of the model.                                                    *)
(***************************************************************************)
MaxLog == 1           \* a host operation starts only while Len(log) < MaxLog
MaxNotify == 2        \* init_audit_instances runs only while every notify_related
                      \* list is shorter than MaxNotify

(***************************************************************************)
(* Python values.                                                          *)
(***************************************************************************)
None == "None"
Nil == <<"None">>     \* None where a list is expected (fields, track_related, ...)
Empty == [f \in {} |-> None]  \* the empty dict {}

Truthy(list) == list # Nil /\ list # <<>>
Range(seq) == {seq[i] : i \in DOMAIN seq}
Get(dict, key) == IF key \in DOMAIN dict THEN dict[key] ELSE None

(***************************************************************************)
(* The host schema.                                                        *)
(***************************************************************************)
Models == {"Post", "Comment"}
Posts == {"p1"}
Comments == {"c1", "c2"}
Entities == Posts \cup Comments
OrderedEntities == <<"p1", "c1", "c2">>   \* default queryset order (by id)

ModelOf(e) == IF e \in Posts THEN "Post" ELSE "Comment"

\* instance._meta.fields
MetaFields(model) ==
    IF model = "Post" THEN <<"id", "status">> ELSE <<"id", "post">>

IsForeignKey(model, field_name) == model = "Comment" /\ field_name = "post"
HasChoices(model, field_name) == model = "Post" /\ field_name = "status"

\* get_<field>_display(): the label of a choice, the raw value when it is none
Display(value) ==
    CASE value = "1" -> "draft"
      [] value = "2" -> "published"
      [] OTHER -> value

\* unicode(obj) of a model without __unicode__
Unicode(e) == ModelOf(e) \o " object"

FieldValues(field_name) ==
    CASE field_name = "status" -> {"1", "2"}
      [] field_name = "post" -> Posts \cup {None}
      [] OTHER -> {None}

(***************************************************************************)
(* AuditTrailWatcher.__init__                                              *)
(***************************************************************************)
AuditTrailWatcher(fields, track_related, notify_related, track_only_with_related, excluded_fields) ==
    [ fields |-> fields,
      notify_related |-> notify_related,
      track_related |-> track_related,
      track_only_with_related |-> track_only_with_related,
      excluded_fields |-> IF Truthy(excluded_fields)
                          THEN <<"id">> \o excluded_fields
                          ELSE <<"id">> ]

(***************************************************************************)
(* Results of calls that may raise: raised names the exception ("none"     *)
(* when the call returned), value is what it returned.                     *)
(***************************************************************************)
Return(v) == [raised |-> "none", value |-> v]
Raise(exc) == [raised |-> exc, value |-> None]

(***************************************************************************)
(* get_fk_value, get_choice_value, serialize_object, get_changes           *)
(***************************************************************************)
\* get_fk_value builds a transient instance and reads its related object:
\* the ORM raises DoesNotExist when the referenced row is gone.
get_fk_value(field_name, value, present) ==
    IF value = None THEN Return(None)
    ELSE IF value \notin present THEN Raise("DoesNotExist")
    ELSE Return("[#" \o value \o "] " \o Unicode(value))

get_choice_value(field_name, value) ==
    IF value = None THEN None
    ELSE "[#" \o value \o "] " \o Display(value)

value_from_object(instance, field_name) ==
    IF field_name = "id" THEN instance.pk ELSE instance.vals[field_name]

serialize_object(w, instance) ==
    LET all == Range(MetaFields(ModelOf(instance.e)))
        not_tracked_field(f) == w.fields # Nil /\ f \notin Range(w.fields)
        kept == {f \in all : ~(not_tracked_field(f) \/ f \in Range(w.excluded_fields))}
    IN  [f \in kept |-> value_from_object(instance, f)]

\* one field of the loop of get_changes: the rendered old and new value
RenderPair(model, field_name, old_values, new_values, present) ==
    LET old_value == Get(old_values, field_name)
        new_value == Get(new_values, field_name)
        fk_old == get_fk_value(field_name, old_value, present)
        fk_new == get_fk_value(field_name, new_value, present)
    IN  IF IsForeignKey(model, field_name)
        THEN IF fk_old.raised # "none" THEN fk_old
             ELSE IF fk_new.raised # "none" THEN fk_new
             ELSE Return([old_value |-> fk_old.value, new_value |-> fk_new.value])
        ELSE IF HasChoices(model, field_name)
        THEN Return([old_value |-> get_choice_value(field_name, old_value),
                     new_value |-> get_choice_value(field_name, new_value)])
        ELSE Return([old_value |-> old_value, new_value |-> new_value])

RECURSIVE get_changes_loop(_, _, _, _, _, _, _)
get_changes_loop(model, fields, i, old_values, new_values, present, diff) ==
    IF i > Len(fields) THEN Return(diff)
    ELSE LET r == RenderPair(model, fields[i], old_values, new_values, present)
         IN  IF r.raised # "none" THEN Raise(r.raised)
             ELSE get_changes_loop(model, fields, i + 1, old_values, new_values, present,
                      IF r.value.old_value # r.value.new_value
                      THEN (fields[i] :> r.value) @@ diff
                      ELSE diff)

get_changes(w, model, old_values, new_values, present) ==
    LET fields == IF Truthy(w.fields) THEN w.fields ELSE MetaFields(model)
    IN  get_changes_loop(model, fields, 1, old_values, new_values, present, Empty)

(***************************************************************************)
(* Registration and activation.  A registry is the class-level state       *)
(* [tracked, audit, receivers] the methods below read and write.           *)
(***************************************************************************)
Registry == [tracked |-> tracked_models, audit |-> audit, receivers |-> receivers]

\* hasattr(cls, 'audit'): contribute_to_class sets it with tracked_models
HasAudit(R, cls) == cls \in R.tracked

\* a registration in which the last watcher wins
contribute_to_class_last_wins(R, w, cls) ==
    [ret |-> cls \notin R.tracked,
     reg |-> [R EXCEPT !.tracked = @ \cup {cls}, !.audit[cls] = w]]

contribute_to_class(R, w, cls) ==
    IF cls \in R.tracked
    THEN [ret |-> FALSE, reg |-> R]
    ELSE [ret |-> TRUE,
          reg |-> [R EXCEPT !.tracked = @ \cup {cls}, !.audit[cls] = w]]

\* relation introspection of the host for getattr(model_class, attr_name)
IsReverseDescriptor(model, attr_name) == model = "Post" /\ attr_name = "comment_set"
RelatedQueryName(model, attr_name) == "comment"   \* Comment.post has no related_name
HasAttr(model, name) ==
    IF model = "Post" THEN name \in {"id", "status", "comment_set", "audit"}
    ELSE name \in {"id", "post", "post_id", "audit"}

related_model(model, attr_name) ==
    IF IsReverseDescriptor(model, attr_name) THEN "Comment" ELSE "Post"

related_field_name(model, attr_name) ==
    IF IsReverseDescriptor(model, attr_name) THEN "post"
    ELSE IF ~HasAttr(related_model(model, attr_name), RelatedQueryName(model, attr_name))
    THEN RelatedQueryName(model, attr_name) \o "_set"
    ELSE RelatedQueryName(model, attr_name)

\* signals.<signal>.connect(handler, sender=model_class, weak=False): the
\* dispatcher keys a receiver by (handler, sender), so connecting again adds nothing
connect(R, model) == [R EXCEPT !.receivers = @ \cup {model}]

\* a resolution that replaces the list
append_notify_related_overwriting(R, model, name) ==
    [R EXCEPT !.audit[model].notify_related = <<name>>]

\* lines 84-85
append_notify_related(R, model, name) ==
    LET held == IF R.audit[model].notify_related = Nil
                THEN <<>> ELSE R.audit[model].notify_related
    IN  [R EXCEPT !.audit[model].notify_related = held \o <<name>>]

RECURSIVE init_signals(_, _)
RECURSIVE init_related_signals_from(_, _, _)

init_related_signals_from(R, model, i) ==
    LET track_related == R.audit[model].track_related
    IN  IF i > Len(track_related) THEN R
        ELSE LET rm == related_model(model, track_related[i])
                 name == related_field_name(model, track_related[i])
                 related_watcher == AuditTrailWatcher(Nil, Nil, Nil, TRUE, Nil)
                 R1 == IF ~HasAudit(R, rm)
                       THEN init_signals(contribute_to_class(R, related_watcher, rm).reg, rm)
                       ELSE R
             IN  init_related_signals_from(append_notify_related(R1, rm, name), model, i + 1)

init_related_signals(R, model) ==
    IF ~Truthy(R.audit[model].track_related) THEN R
    ELSE init_related_signals_from(R, model, 1)

init_signals(R, model) == init_related_signals(connect(R, model), model)

\* init_audit_instances: `order` is the iteration order of tracked_models.copy()
RECURSIVE init_audit_instances(_, _, _)
init_audit_instances(R, order, i) ==
    IF i > Len(order) THEN R
    ELSE init_audit_instances(init_signals(R, order[i]), order, i + 1)

Orders(S) == {o \in [1..Cardinality(S) -> S] : Range(o) = S}

(***************************************************************************)
(* The constructor calls the model registers with.                         *)
(***************************************************************************)
WatcherChoices(model) ==
    IF model = "Post"
    THEN { AuditTrailWatcher(Nil, <<"comment_set">>, Nil, FALSE, Nil) }
    ELSE { AuditTrailWatcher(Nil, <<"post">>, Nil, FALSE, Nil),
           AuditTrailWatcher(Nil, Nil, Nil, TRUE, Nil) }

(***************************************************************************)
(* What a handler works on: the database rows, the instance the signal is  *)
(* about, the AuditTrail table, and the store's behaviour during this      *)
(* dispatch (`fail` is the ordinal of the AuditTrail.save() call the store *)
(* rejects, 0 = none).                                                     *)
(***************************************************************************)
World(instance, fail) ==
    [rows |-> rows, instance |-> instance, log |-> log, saves |-> 0, fail |-> fail]

Exists(table) == {e \in Entities : table[e].st = "present"}

Ok(W) == [raised |-> "none", world |-> W]
Fail(exc, W) == [raised |-> exc, world |-> W]

\* AuditTrail.objects.generate_trail_for_*: a record of the given kind for the instance
generate_trail_for_instance_created(e) ==
    [subject |-> e, kind |-> "Created", changes |-> Empty, related_trail |-> 0]
generate_trail_for_instance_updated(e) ==
    [subject |-> e, kind |-> "Updated", changes |-> Empty, related_trail |-> 0]
generate_trail_for_instance_deleted(e) ==
    [subject |-> e, kind |-> "Deleted", changes |-> Empty, related_trail |-> 0]
generate_trail_for_related_change(e) ==
    [subject |-> e, kind |-> "RelatedChange", changes |-> Empty, related_trail |-> 0]

\* a save that swallows the store's rejection
audit_trail_save_swallowing(W, trail) ==
    IF W.saves + 1 = W.fail
    THEN Ok([W EXCEPT !.saves = @ + 1])
    ELSE Ok([W EXCEPT !.saves = @ + 1, !.log = Append(@, trail)])

\* audit_trail.save(): the row is appended unless the store rejects this call
audit_trail_save(W, trail) ==
    IF W.saves + 1 = W.fail
    THEN Fail("PersistenceError", [W EXCEPT !.saves = @ + 1])
    ELSE Ok([W EXCEPT !.saves = @ + 1, !.log = Append(@, trail)])

\* getattr(instance, field_name): a forward foreign key gives None, the related
\* object, or raises DoesNotExist when the row is gone and the instance holds no
\* cached related object; a reverse relation gives a manager
getattr(W, field_name, cached) ==
    IF ModelOf(W.instance.e) = "Comment" /\ field_name = "post"
    THEN LET v == W.instance.vals["post"]
         IN  IF v = None THEN [kind |-> "None", obj |-> None]
             ELSE IF v \in Exists(W.rows) \/ cached THEN [kind |-> "object", obj |-> v]
             ELSE [kind |-> "DoesNotExist", obj |-> None]
    ELSE IF ModelOf(W.instance.e) = "Post" /\ field_name = "comment_set"
    THEN [kind |-> "manager", obj |-> None]
    ELSE [kind |-> "AttributeError", obj |-> None]

\* parent_object.all() of the manager <post>.comment_set
all(W) ==
    SelectSeq(OrderedEntities,
              LAMBDA c : /\ c \in Comments
                         /\ c \in Exists(W.rows)
                         /\ W.rows[c].vals["post"] = W.instance.pk)

\* list(attribute.all()) after attribute.core_filters = {'id__in': ids}
all_id_in(W, ids) ==
    SelectSeq(OrderedEntities,
              LAMBDA c : c \in Comments /\ c \in Exists(W.rows) /\ c \in Range(ids))

RECURSIVE is_parent_object_exists_from(_, _, _, _)
is_parent_object_exists_from(w, W, cached, i) ==
    IF i > Len(w.notify_related) THEN Return(FALSE)
    ELSE LET field_name == w.notify_related[i]
             parent_object == getattr(W, field_name, cached)
             severed == IF W.instance.has_ids THEN W.instance.ids ELSE Empty
         IN  CASE parent_object.kind = "DoesNotExist" -> Raise("DoesNotExist")
               [] parent_object.kind \in {"None", "AttributeError"} ->
                      is_parent_object_exists_from(w, W, cached, i + 1)
               [] parent_object.kind = "object" -> Return(TRUE)
               [] OTHER ->
                      IF all(W) # <<>> THEN Return(TRUE)
                      ELSE IF field_name \in DOMAIN severed THEN Return(TRUE)
                      ELSE is_parent_object_exists_from(w, W, cached, i + 1)

\* a gate that lets everything through
is_parent_object_exists_anyway(w, W, cached) == Return(TRUE)

\* `for field_name in self.notify_related` raises TypeError on None
is_parent_object_exists(w, W, cached) ==
    IF w.notify_related = Nil THEN Raise("TypeError")
    ELSE is_parent_object_exists_from(w, W, cached, 1)

\* lines 251-254 and 287-290: one RelatedChange row per notified object
RECURSIVE notify_objects(_, _, _, _)
\* a notification whose RelatedChange row sets off the notified object's own cascade
notify_objects_recursing(W, notified_objects, j, audit_trail) ==
    IF j > Len(notified_objects) THEN Ok(W)
    ELSE LET parent_audit_trail ==
                 [generate_trail_for_related_change(notified_objects[j])
                     EXCEPT !.related_trail = audit_trail]
             r == audit_trail_save(W, parent_audit_trail)
             back == [generate_trail_for_related_change(W.instance.e)
                         EXCEPT !.related_trail = Len(r.world.log)]
             r2 == audit_trail_save(r.world, back)
         IN  IF r.raised # "none" THEN r
             ELSE IF r2.raised # "none" THEN r2
             ELSE notify_objects(r2.world, notified_objects, j + 1, audit_trail)

notify_objects(W, notified_objects, j, audit_trail) ==
    IF j > Len(notified_objects) THEN Ok(W)
    ELSE LET parent_audit_trail ==
                 [generate_trail_for_related_change(notified_objects[j])
                     EXCEPT !.related_trail = audit_trail]
             r == audit_trail_save(W, parent_audit_trail)
         IN  IF r.raised # "none" THEN r
             ELSE notify_objects(r.world, notified_objects, j + 1, audit_trail)

RECURSIVE create_related_audit_trail_from(_, _, _, _)
create_related_audit_trail_from(w, W, audit_trail, i) ==
    IF i > Len(w.notify_related) THEN Ok(W)
    ELSE LET attribute == getattr(W, w.notify_related[i], FALSE)
         IN  CASE attribute.kind \in {"DoesNotExist", "AttributeError"} ->
                      Fail(attribute.kind, W)
               [] attribute.kind = "None" ->
                      create_related_audit_trail_from(w, W, audit_trail, i + 1)
               [] OTHER ->
                      LET notified_objects == IF attribute.kind = "object"
                                              THEN <<attribute.obj>> ELSE all(W)
                          r == notify_objects(W, notified_objects, 1, audit_trail)
                      IN  IF r.raised # "none" THEN r
                          ELSE create_related_audit_trail_from(w, r.world,
                                                               audit_trail, i + 1)

\* audit_trail is the position of the triggering row in the table; its
\* content_object is the instance of W
create_related_audit_trail(w, W, audit_trail) ==
    IF ~Truthy(w.notify_related) THEN Ok(W)
    ELSE create_related_audit_trail_from(w, W, audit_trail, 1)

RECURSIVE create_deleted_related_audit_trail_from(_, _, _, _, _)
create_deleted_related_audit_trail_from(w, W, audit_trail, cached, i) ==
    IF i > Len(w.notify_related) THEN Ok(W)
    ELSE LET field_name == w.notify_related[i]
             attribute == getattr(W, field_name, cached)
             next(W1) == create_deleted_related_audit_trail_from(w, W1, audit_trail,
                                                                 cached, i + 1)
         IN  CASE attribute.kind \in {"DoesNotExist", "AttributeError"} ->
                      Fail(attribute.kind, W)
               [] attribute.kind = "None" -> next(W)
               [] attribute.kind = "object" ->
                      LET r == notify_objects(W, <<attribute.obj>>, 1, audit_trail)
                      IN  IF r.raised # "none" THEN r ELSE next(r.world)
               [] OTHER ->
                      IF ~W.instance.has_ids THEN Fail("AttributeError", W)
                      ELSE IF \/ field_name \notin DOMAIN W.instance.ids
                              \/ W.instance.ids[field_name] = <<>>
                      THEN next(W)
                      ELSE LET ids == W.instance.ids[field_name]
                               r == notify_objects(W, all_id_in(W, ids), 1, audit_trail)
                           IN  IF r.raised # "none" THEN r ELSE next(r.world)

create_deleted_related_audit_trail(w, W, audit_trail, cached) ==
    IF ~Truthy(w.notify_related) THEN Ok(W)
    ELSE create_deleted_related_audit_trail_from(w, W, audit_trail, cached, 1)

(***************************************************************************)
(* The five signal handlers.  disabled is the value of                     *)
(* settings.DISABLE_AUDIT_TRAIL the handler reads.                         *)
(***************************************************************************)
on_post_init(w, W) ==
    Ok([W EXCEPT !.instance.original_values = serialize_object(w, W.instance),
                 !.instance.has_original_values = TRUE])

\* a handler that notifies the related objects before it saves its own row
record_and_notify_cascade_first(w, W, trail, changes) ==
    LET notified == create_related_audit_trail(w, W, 0)
        saved == audit_trail_save(notified.world, [trail EXCEPT !.changes = changes])
    IN  IF notified.raised # "none" THEN notified
        ELSE IF saved.raised # "none" THEN saved
        ELSE Ok([saved.world EXCEPT
                    !.instance.original_values = serialize_object(w, W.instance),
                    !.instance.has_original_values = TRUE])

\* lines 159-164, 181-186: fill in the changes, save, refresh the snapshot, cascade
record_and_notify(w, W, trail, changes) ==
    LET saved == audit_trail_save(W, [trail EXCEPT !.changes = changes])
        W1 == [saved.world EXCEPT
                  !.instance.original_values = serialize_object(w, W.instance),
                  !.instance.has_original_values = TRUE]
    IN  IF saved.raised # "none" THEN saved
        ELSE create_related_audit_trail(w, W1, Len(W1.log))

\* a creation handler that keeps quiet about an empty diff
on_post_save_create_unless_empty(w, W, created, disabled) ==
    LET parent == is_parent_object_exists(w, W, FALSE)
        changes == get_changes(w, ModelOf(W.instance.e), Empty,
                               serialize_object(w, W.instance), Exists(W.rows))
    IN  IF disabled THEN Ok(W)
        ELSE IF ~created THEN Ok(W)
        ELSE IF w.track_only_with_related /\ parent.raised # "none"
        THEN Fail(parent.raised, W)
        ELSE IF w.track_only_with_related /\ ~parent.value THEN Ok(W)
        ELSE IF changes.raised # "none" THEN Fail(changes.raised, W)
        ELSE IF changes.value = Empty THEN Ok(W)
        ELSE record_and_notify(w, W, generate_trail_for_instance_created(W.instance.e),
                               changes.value)

on_post_save_create(w, W, created, disabled) ==
    LET parent == is_parent_object_exists(w, W, FALSE)
        changes == get_changes(w, ModelOf(W.instance.e), Empty,
                               serialize_object(w, W.instance), Exists(W.rows))
    IN  IF disabled THEN Ok(W)
        ELSE IF ~created THEN Ok(W)
        ELSE IF w.track_only_with_related /\ parent.raised # "none"
        THEN Fail(parent.raised, W)
        ELSE IF w.track_only_with_related /\ ~parent.value THEN Ok(W)
        ELSE IF changes.raised # "none" THEN Fail(changes.raised, W)
        ELSE record_and_notify(w, W, generate_trail_for_instance_created(W.instance.e),
                               changes.value)

\* an update handler that records every save
on_post_save_update_every_save(w, W, created, disabled) ==
    LET parent == is_parent_object_exists(w, W, FALSE)
        changes == get_changes(w, ModelOf(W.instance.e), W.instance.original_values,
                               serialize_object(w, W.instance), Exists(W.rows))
    IN  IF disabled THEN Ok(W)
        ELSE IF created THEN Ok(W)
        ELSE IF w.track_only_with_related /\ parent.raised # "none"
        THEN Fail(parent.raised, W)
        ELSE IF w.track_only_with_related /\ ~parent.value THEN Ok(W)
        ELSE IF ~W.instance.has_original_values THEN Fail("AttributeError", W)
        ELSE IF changes.raised # "none" THEN Fail(changes.raised, W)
        ELSE record_and_notify(w, W, generate_trail_for_instance_updated(W.instance.e),
                               changes.value)

\* an update handler that refreshes the snapshot of a save it does not record
on_post_save_update_refreshing(w, W, created, disabled) ==
    LET parent == is_parent_object_exists(w, W, FALSE)
        changes == get_changes(w, ModelOf(W.instance.e), W.instance.original_values,
                               serialize_object(w, W.instance), Exists(W.rows))
        refreshed == [W EXCEPT
                        !.instance.original_values = serialize_object(w, W.instance),
                        !.instance.has_original_values = TRUE]
    IN  IF disabled THEN Ok(refreshed)
        ELSE IF created THEN Ok(W)
        ELSE IF w.track_only_with_related /\ parent.raised # "none"
        THEN Fail(parent.raised, W)
        ELSE IF w.track_only_with_related /\ ~parent.value THEN Ok(refreshed)
        ELSE IF ~W.instance.has_original_values THEN Fail("AttributeError", W)
        ELSE IF changes.raised # "none" THEN Fail(changes.raised, W)
        ELSE IF changes.value = Empty THEN Ok(W)
        ELSE record_and_notify(w, W, generate_trail_for_instance_updated(W.instance.e),
                               changes.value)

on_post_save_update(w, W, created, disabled) ==
    LET parent == is_parent_object_exists(w, W, FALSE)
        changes == get_changes(w, ModelOf(W.instance.e), W.instance.original_values,
                               serialize_object(w, W.instance), Exists(W.rows))
    IN  IF disabled THEN Ok(W)
        ELSE IF created THEN Ok(W)
        ELSE IF w.track_only_with_related /\ parent.raised # "none"
        THEN Fail(parent.raised, W)
        ELSE IF w.track_only_with_related /\ ~parent.value THEN Ok(W)
        ELSE IF ~W.instance.has_original_values THEN Fail("AttributeError", W)
        ELSE IF changes.raised # "none" THEN Fail(changes.raised, W)
        ELSE IF changes.value = Empty THEN Ok(W)
        ELSE record_and_notify(w, W, generate_trail_for_instance_updated(W.instance.e),
                               changes.value)

RECURSIVE on_pre_delete_from(_, _, _, _)
on_pre_delete_from(w, W, cached, i) ==
    IF i > Len(w.notify_related) THEN Ok(W)
    ELSE LET field_name == w.notify_related[i]
             parent_object == getattr(W, field_name, cached)
         IN  CASE parent_object.kind = "DoesNotExist" -> Fail("DoesNotExist", W)
               [] parent_object.kind = "manager" /\ all(W) # <<>> ->
                      on_pre_delete_from(w,
                          [W EXCEPT !.instance.ids = (field_name :> all(W)) @@ @],
                          cached, i + 1)
               [] OTHER -> on_pre_delete_from(w, W, cached, i + 1)

\* a pre-delete handler that does not read the switch
on_pre_delete_ignoring_switch(w, W, disabled, cached) ==
    IF ~Truthy(w.notify_related) THEN Ok(W)
    ELSE on_pre_delete_from(w, [W EXCEPT !.instance.ids = Empty,
                                         !.instance.has_ids = TRUE], cached, 1)

on_pre_delete(w, W, disabled, cached) ==
    IF disabled THEN Ok(W)
    ELSE IF ~Truthy(w.notify_related) THEN Ok(W)
    ELSE on_pre_delete_from(w, [W EXCEPT !.instance.ids = Empty,
                                         !.instance.has_ids = TRUE], cached, 1)

on_post_delete(w, W, disabled, cached) ==
    LET parent == is_parent_object_exists(w, W, cached)
        changes == get_changes(w, ModelOf(W.instance.e),
                               serialize_object(w, W.instance), Empty, Exists(W.rows))
        trail == [generate_trail_for_instance_deleted(W.instance.e)
                     EXCEPT !.changes = changes.value]
        saved == audit_trail_save(W, trail)
    IN  IF disabled THEN Ok(W)
        ELSE IF w.track_only_with_related /\ parent.raised # "none"
        THEN Fail(parent.raised, W)
        ELSE IF w.track_only_with_related /\ ~parent.value THEN Ok(W)
        ELSE IF changes.raised # "none" THEN Fail(changes.raised, W)
        ELSE IF saved.raised # "none" THEN saved
        ELSE create_deleted_related_audit_trail(w, saved.world,
                                                Len(saved.world.log), cached)

(***************************************************************************)
(* State.                                                                  *)
(***************************************************************************)
Unattached == AuditTrailWatcher(Nil, Nil, Nil, FALSE, Nil)

NoRow == [st |-> "none", vals |-> Empty]

NoInstance == [e |-> None, pk |-> None, vals |-> Empty,
               has_original_values |-> FALSE, original_values |-> Empty,
               has_ids |-> FALSE, ids |-> Empty]

NoDelete == [instance |-> NoInstance, phase |-> "idle", cached |-> FALSE,
             held |-> FALSE]

NoStep == [op |-> "none", target |-> None, arg |-> None, created |-> FALSE,
           n |-> 0, raised |-> "none", ret |-> FALSE]

Init ==
    /\ DISABLE_AUDIT_TRAIL = FALSE
    /\ tracked_models = {}
    /\ audit = [m \in Models |-> Unattached]
    /\ receivers = {}
    /\ rows = [e \in Entities |-> NoRow]
    /\ handle = NoInstance
    /\ deleting = NoDelete
    /\ log = <<>>
    /\ last = NoStep

\* class body `audit = AuditTrailWatcher(...)`: the metaclass calls contribute_to_class
Register(model, w) ==
    /\ receivers = {}
    /\ LET r == contribute_to_class(Registry, w, model)
       IN  /\ tracked_models' = r.reg.tracked
           /\ audit' = r.reg.audit
           /\ last' = [NoStep EXCEPT !.op = "register", !.target = model,
                                     !.arg = w, !.ret = r.ret]
    /\ UNCHANGED <<DISABLE_AUDIT_TRAIL, receivers, rows, handle,
                   deleting, log>>

\* audit_trail_app_ready is sent (at startup, before the host touches an
\* instance): init_audit_instances runs
Activate ==
    /\ tracked_models # {}
    /\ \A m \in tracked_models :
          audit[m].notify_related = Nil \/ Len(audit[m].notify_related) < MaxNotify
    /\ \A e \in Entities : rows[e].st = "none"
    /\ \E order \in Orders(tracked_models) :
         LET R == init_audit_instances(Registry, order, 1)
         IN  /\ tracked_models' = R.tracked
             /\ audit' = R.audit
             /\ receivers' = R.receivers
    /\ last' = [NoStep EXCEPT !.op = "activate"]
    /\ UNCHANGED <<DISABLE_AUDIT_TRAIL, rows, handle, deleting, log>>

(***************************************************************************)
(* The host's operations on instances.  A signal reaches the handlers of   *)
(* the watcher only when the sender's receivers are connected.             *)
(***************************************************************************)
Wired(e) == ModelOf(e) \in receivers
Watcher(e) == audit[ModelOf(e)]
Running == receivers # {} /\ deleting = NoDelete /\ Len(log) < MaxLog

OwnFields(e) == Range(MetaFields(ModelOf(e))) \ {"id"}
Earlier(e) == {d \in Entities : /\ ModelOf(d) = ModelOf(e)
                                /\ \E i, j \in DOMAIN OrderedEntities :
                                     /\ OrderedEntities[i] = d
                                     /\ OrderedEntities[j] = e
                                     /\ i < j}
Assignable(field_name) ==
    IF field_name = "post" THEN (Posts \cap Exists(rows)) \cup {None}
    ELSE FieldValues(field_name)

InitialValues(e) ==
    {vals \in [OwnFields(e) -> UNION {FieldValues(f) : f \in OwnFields(e)}] :
        \A f \in OwnFields(e) : vals[f] \in Assignable(f)}

FailChoices == {0, 1, 2}

Step(op, e, created, raised) ==
    [NoStep EXCEPT !.op = op, !.target = e, !.created = created,
                   !.n = Len(log), !.raised = raised]

\* Model.__init__ sends post_init
post_init(instance) ==
    IF Wired(instance.e)
    THEN on_post_init(Watcher(instance.e), World(instance, 0)).world.instance
    ELSE instance

\* Model.objects.get(pk=e): an instance built from the row
FromRow(e) == post_init([NoInstance EXCEPT !.e = e, !.pk = e, !.vals = rows[e].vals])

\* post_save reaches on_post_save_create and on_post_save_update in connection order
post_save(W, created) ==
    LET w == Watcher(W.instance.e)
        r1 == on_post_save_create(w, W, created, DISABLE_AUDIT_TRAIL)
    IN  IF ~Wired(W.instance.e) THEN Ok(W)
        ELSE IF r1.raised # "none" THEN r1
        ELSE on_post_save_update(w, r1.world, created, DISABLE_AUDIT_TRAIL)

\* the INSERT or UPDATE of Model.save()
WriteRow(W) ==
    [W EXCEPT !.rows[W.instance.e] = [st |-> "present", vals |-> W.instance.vals],
              !.instance.pk = W.instance.e]

\* instance = Model(**vals); instance.save(): post_init, INSERT, post_save(created)
Create(e, vals, fail) ==
    /\ Running
    /\ rows[e].st = "none"
    /\ \A d \in Earlier(e) : rows[d].st # "none"
    /\ LET instance == post_init([NoInstance EXCEPT !.e = e, !.vals = vals])
           r == post_save(WriteRow(World(instance, fail)), TRUE)
       IN  /\ rows' = r.world.rows
           /\ handle' = r.world.instance
           /\ log' = r.world.log
           /\ last' = Step("post_save", e, TRUE, r.raised)
    /\ UNCHANGED <<DISABLE_AUDIT_TRAIL, tracked_models, audit, receivers,
                   deleting>>

\* instance = Model.objects.get(pk=e): post_init
Load(e) ==
    /\ Running
    /\ rows[e].st = "present"
    /\ handle' = FromRow(e)
    /\ last' = Step("post_init", e, FALSE, "none")
    /\ UNCHANGED <<DISABLE_AUDIT_TRAIL, tracked_models, audit, receivers,
                   rows, deleting, log>>

\* instance.<field_name> = value
Modify(field_name, value) ==
    /\ Running
    /\ handle.e # None
    /\ field_name \in OwnFields(handle.e)
    /\ value \in Assignable(field_name)
    /\ handle.vals[field_name] # value
    /\ handle' = [handle EXCEPT !.vals[field_name] = value]
    /\ last' = NoStep
    /\ UNCHANGED <<DISABLE_AUDIT_TRAIL, tracked_models, audit, receivers,
                   rows, deleting, log>>

\* instance.save() of an instance that has a row: UPDATE (the database enforces
\* the foreign key), post_save(not created)
Save(fail) ==
    /\ Running
    /\ handle.e # None
    /\ handle.e \in Comments => handle.vals["post"] \in Exists(rows) \cup {None}
    /\ LET r == post_save(WriteRow(World(handle, fail)), FALSE)
       IN  /\ rows' = r.world.rows
           /\ handle' = r.world.instance
           /\ log' = r.world.log
           /\ last' = Step("post_save", handle.e, FALSE, r.raised)
    /\ UNCHANGED <<DISABLE_AUDIT_TRAIL, tracked_models, audit, receivers,
                   deleting>>

\* instance.delete(), first part: pre_delete is sent; an exception aborts the
\* delete.  The instance is the one the host holds, or one fetched for the delete.
DeletePre(e, cached) ==
    /\ Running
    /\ rows[e].st = "present"
    /\ cached => /\ handle.e = e
                 /\ e \in Comments
                 /\ handle.vals["post"] \notin Exists(rows) \cup {None}
    /\ LET held == handle.e = e
           instance == IF held THEN handle ELSE FromRow(e)
           r == IF Wired(e)
                THEN on_pre_delete(Watcher(e), World(instance, 0),
                                   DISABLE_AUDIT_TRAIL, cached)
                ELSE Ok(World(instance, 0))
       IN  /\ handle' = IF held THEN r.world.instance ELSE handle
           /\ deleting' = IF r.raised # "none" THEN NoDelete
                          ELSE [instance |-> r.world.instance, phase |-> "collected",
                                cached |-> cached, held |-> held]
           /\ last' = Step("pre_delete", e, FALSE, r.raised)
    /\ UNCHANGED <<DISABLE_AUDIT_TRAIL, tracked_models, audit, receivers,
                   rows, log>>

\* second part: the collector nulls the foreign keys that point at the row
\* (on_delete = SET_NULL) and deletes the row
DeleteRow ==
    /\ deleting.phase = "collected"
    /\ rows' = [x \in Entities |->
                  IF x = deleting.instance.e THEN [st |-> "deleted", vals |-> Empty]
                  ELSE IF /\ x \in Comments
                          /\ rows[x].st = "present"
                          /\ rows[x].vals["post"] = deleting.instance.e
                  THEN [rows[x] EXCEPT !.vals["post"] = None]
                  ELSE rows[x]]
    /\ deleting' = [deleting EXCEPT !.phase = "deleted"]
    /\ last' = NoStep
    /\ UNCHANGED <<DISABLE_AUDIT_TRAIL, tracked_models, audit, receivers,
                   handle, log>>

\* third part: post_delete is sent; the host lets go of the deleted instance
DeletePost(fail) ==
    /\ deleting.phase = "deleted"
    /\ LET e == deleting.instance.e
           W == [World(deleting.instance, fail) EXCEPT !.rows = rows]
           r == IF Wired(e)
                THEN on_post_delete(Watcher(e), W, DISABLE_AUDIT_TRAIL, deleting.cached)
                ELSE Ok(W)
       IN  /\ log' = r.world.log
           /\ last' = Step("post_delete", e, FALSE, r.raised)
    /\ handle' = IF deleting.held THEN NoInstance ELSE handle
    /\ deleting' = NoDelete
    /\ UNCHANGED <<DISABLE_AUDIT_TRAIL, tracked_models, audit, receivers,
                   rows>>

\* settings.DISABLE_AUDIT_TRAIL is switched (between host operations)
SetDisabled ==
    /\ Running
    /\ DISABLE_AUDIT_TRAIL' = ~DISABLE_AUDIT_TRAIL
    /\ last' = NoStep
    /\ UNCHANGED <<tracked_models, audit, receivers, rows, handle,
                   deleting, log>>

Next ==
    \/ \E model \in Models : \E w \in WatcherChoices(model) : Register(model, w)
    \/ Activate
    \/ \E e \in Entities : \E vals \in InitialValues(e) : \E fail \in FailChoices :
          Create(e, vals, fail)
    \/ \E e \in Entities : Load(e)
    \/ \E f \in {"status", "post"} : \E v \in FieldValues(f) : Modify(f, v)
    \/ \E fail \in FailChoices : Save(fail)
    \/ \E e \in Entities : \E cached \in BOOLEAN : DeletePre(e, cached)
    \/ DeleteRow
    \/ \E fail \in FailChoices : DeletePost(fail)
    \/ SetDisabled

Spec == Init /\ [][Next]_vars

(***************************************************************************)
(* Vocabulary of the properties.                                           *)
(***************************************************************************)
\* the rows the most recent signal dispatch added to the AuditTrail table
NewTrails == {i \in DOMAIN log : i > last.n}
CountNew(kind, e) ==
    Cardinality({i \in NewTrails : log[i].kind = kind /\ log[i].subject = e})
CountAll(kind, e) ==
    Cardinality({i \in DOMAIN log : log[i].kind = kind /\ log[i].subject = e})

NotifyNames(w) == IF w.notify_related = Nil THEN {} ELSE Range(w.notify_related)
Members(table, p) ==
    {c \in Comments : table[c].st = "present" /\ table[c].vals["post"] = p}

\* the entities an instance is related to through the notify relations of w
Related(instance, table, w) ==
    IF ModelOf(instance.e) = "Comment"
    THEN IF "post" \in NotifyNames(w) /\ instance.vals["post"] # None
         THEN {instance.vals["post"]} ELSE {}
    ELSE IF "comment_set" \in NotifyNames(w) THEN Members(table, instance.e) ELSE {}

\* every notify relation is a null reference, or an empty collection with no
\* severed ids recorded for it
NoParent(instance, table, w) ==
    \A name \in NotifyNames(w) :
       IF ModelOf(instance.e) = "Comment"
       THEN name = "post" => instance.vals["post"] = None
       ELSE name = "comment_set" =>
               /\ Members(table, instance.e) = {}
               /\ ~(instance.has_ids /\ name \in DOMAIN instance.ids)

\* some notify relation leads to an entity that has a row, or to a collection
\* whose members were recorded before the delete severed them
HasParent(instance, table, w) ==
    \/ Related(instance, table, w) \cap Exists(table) # {}
    \/ /\ ModelOf(instance.e) = "Post"
       /\ instance.has_ids
       /\ NotifyNames(w) \cap DOMAIN instance.ids # {}

GateOpen(instance, table, w) ==
    ~w.track_only_with_related \/ HasParent(instance, table, w)

\* the before- and after-snapshot of an instance hold the same value for every field
NoDifference(instance, w) ==
    LET after == serialize_object(w, instance)
    IN  \A f \in DOMAIN after \cup DOMAIN instance.original_values :
           Get(after, f) = Get(instance.original_values, f)

Dispatched(op) == last.op = op /\ Wired(last.target)

(***************************************************************************)
(* C1: a first-time save (created = true) that neither the disable switch  *)
(* nor the requires_parent gate skips persists exactly one Created record  *)
(* for the entity and no Updated record, whatever the after-snapshot, also *)
(* when its diff against the empty snapshot is empty (the store accepting  *)
(* the write).                                                             *)
(***************************************************************************)
C1_CreatedExactlyOnce ==
    ( /\ Dispatched("post_save")
      /\ last.created
      /\ ~DISABLE_AUDIT_TRAIL
      /\ GateOpen(handle, rows, Watcher(last.target))
      /\ last.raised # "PersistenceError" )
    => /\ CountNew("Created", last.target) = 1
       /\ CountAll("Created", last.target) = 1
       /\ CountAll("Updated", last.target) = 0

C1_Witness ==
    /\ Dispatched("post_save")
    /\ last.created
    /\ ~DISABLE_AUDIT_TRAIL
    /\ last.raised = "none"
    /\ \E i \in NewTrails : /\ log[i].kind = "Created"
                            /\ log[i].subject = last.target
                            /\ log[i].changes = Empty

(***************************************************************************)
(* C2: a save of an existing entity (created = false) whose current        *)
(* snapshot does not differ from the stored before-snapshot in any field   *)
(* persists no record at all and leaves the before-snapshot as it was.     *)
(***************************************************************************)
C2_NoOpUpdateRecordsNothing ==
    [][ ( /\ last'.op = "post_save"
          /\ ~last'.created
          /\ Wired(last'.target)
          /\ NoDifference(handle, Watcher(last'.target)) )
        => /\ log' = log
           /\ handle'.original_values = handle.original_values ]_vars

C2_Witness ==
    /\ Dispatched("post_save")
    /\ ~last.created
    /\ ~DISABLE_AUDIT_TRAIL
    /\ last.raised = "none"
    /\ GateOpen(handle, rows, Watcher(last.target))
    /\ NoDifference(handle, Watcher(last.target))
    /\ NewTrails = {}

(***************************************************************************)
(* C3: a deletion that neither the disable switch nor the requires_parent  *)
(* gate skips persists exactly one Deleted record for the entity, whatever *)
(* the snapshot of the deleted instance (the store accepting the write).   *)
(***************************************************************************)
C3_DeletedExactlyOnce ==
    [][ ( /\ last'.op = "post_delete"
          /\ Wired(last'.target)
          /\ ~DISABLE_AUDIT_TRAIL
          /\ GateOpen(deleting.instance, rows, Watcher(last'.target))
          /\ last'.raised # "PersistenceError" )
        => Cardinality({i \in DOMAIN log' : /\ i > Len(log)
                                            /\ log'[i].kind = "Deleted"
                                            /\ log'[i].subject = last'.target}) = 1
      ]_vars

(***************************************************************************)
(* C4.  What the switch leaves alone during one dispatch: no record is     *)
(* persisted, the before-snapshot of a saved instance stays as it was, no  *)
(* ids are captured on the instance being deleted, nothing is raised.      *)
(***************************************************************************)
SwitchedOffSave ==
    (last'.op = "post_save" /\ Wired(last'.target))
    => /\ log' = log
       /\ last'.raised = "none"
       /\ ~last'.created =>
             /\ handle'.original_values = handle.original_values
             /\ handle'.has_original_values = handle.has_original_values

SwitchedOffDelete ==
    /\ (last'.op = "pre_delete" /\ Wired(last'.target))
       => /\ log' = log
          /\ last'.raised = "none"
          /\ deleting'.instance.has_ids =
                (handle.e = last'.target /\ handle.has_ids)
          /\ deleting'.instance.ids =
                (IF handle.e = last'.target THEN handle.ids ELSE Empty)
    /\ (last'.op = "post_delete" /\ Wired(last'.target))
       => /\ log' = log
          /\ last'.raised = "none"

\* a snapshot is stored on an instance that is constructed or loaded
StoresSnapshot ==
    ( /\ Wired(last'.target)
      /\ last'.op = "post_init" \/ (last'.op = "post_save" /\ last'.created) )
    => handle'.has_original_values

StoresNoSnapshot ==
    ( /\ Wired(last'.target)
      /\ last'.op = "post_init" \/ (last'.op = "post_save" /\ last'.created) )
    => ~handle'.has_original_values

\* C4 as stated: with the disable switch on, every entry point
\* (instance-initialized, post-save create and update, pre-delete, post-delete)
\* returns at once: no snapshot is stored, no ids are captured, no record is
\* persisted.
C4_EveryEntryPointSkipped ==
    [][ DISABLE_AUDIT_TRAIL
        => SwitchedOffSave /\ SwitchedOffDelete /\ StoresNoSnapshot ]_vars

\* C4, amended: with the disable switch on, the post-save (create and update),
\* pre-delete and post-delete entry points return at once: no record is
\* persisted, the before-snapshot is not refreshed, no ids are captured.  The
\* instance-initialized entry point does not read the switch: it stores the
\* snapshot of every instance that is constructed or loaded.
C4_SwitchSkipsAllButPostInit ==
    [][ DISABLE_AUDIT_TRAIL
        => SwitchedOffSave /\ SwitchedOffDelete /\ StoresSnapshot ]_vars

C4_Witness ==
    /\ DISABLE_AUDIT_TRAIL
    /\ Dispatched("post_save")
    /\ ~last.created
    /\ GateOpen(handle, rows, Watcher(last.target))
    /\ handle.has_original_values
    /\ ~NoDifference(handle, Watcher(last.target))
    /\ NewTrails = {}

(***************************************************************************)
(* C5: attaching a watcher to a model that is already tracked returns      *)
(* false and changes nothing, so the first watcher stays in effect;        *)
(* attaching one to a model that is not tracked returns true and makes it  *)
(* the model's watcher.                                                    *)
(***************************************************************************)
C5_RegistrationIdempotent ==
    [][ last'.op = "register"
        => IF last'.target \in tracked_models
           THEN /\ ~last'.ret
                /\ tracked_models' = tracked_models
                /\ audit' = audit
                /\ receivers' = receivers
           ELSE /\ last'.ret
                /\ tracked_models' = tracked_models \cup {last'.target}
                /\ audit' = [audit EXCEPT ![last'.target] = last'.arg] ]_vars

C5_Witness ==
    /\ last.op = "register"
    /\ ~last.ret
    /\ last.target \in tracked_models
    /\ last.arg # audit[last.target]

(***************************************************************************)
(* C6: whenever a Created or Updated record T is persisted for an entity,  *)
(* every entity related to it through a notify relation gets exactly one   *)
(* RelatedChange record whose related_trail is T, and no other entity gets *)
(* a RelatedChange record.                                                 *)
(***************************************************************************)
RelatedChanges(table, T, y) ==
    {j \in DOMAIN table : /\ table[j].kind = "RelatedChange"
                          /\ table[j].subject = y
                          /\ table[j].related_trail = T}

C6_OneRelatedChangePerRelated ==
    (Dispatched("post_save") /\ last.raised = "none")
    => \A T \in NewTrails :
          (log[T].kind \in {"Created", "Updated"} /\ log[T].subject = last.target)
          => \A y \in Entities :
                Cardinality(RelatedChanges(log, T, y)) =
                   IF y \in Related(handle, rows, Watcher(last.target)) THEN 1 ELSE 0

(***************************************************************************)
(* C7: deleting an entity whose collection-valued notify relation has      *)
(* n >= 1 members captures the members' ids before the rows change, and    *)
(* the post-delete step persists one Deleted record for the entity and     *)
(* exactly one RelatedChange record per captured member, each linked to    *)
(* the Deleted record.                                                     *)
(***************************************************************************)
C7_DeleteNotifiesCapturedMembers ==
    [][ /\ ( /\ last'.op = "pre_delete"
             /\ last'.target \in Posts
             /\ Wired(last'.target)
             /\ ~DISABLE_AUDIT_TRAIL
             /\ "comment_set" \in NotifyNames(Watcher(last'.target))
             /\ Members(rows, last'.target) # {} )
           => /\ deleting'.instance.has_ids
              /\ "comment_set" \in DOMAIN deleting'.instance.ids
              /\ Range(deleting'.instance.ids["comment_set"]) =
                    Members(rows, last'.target)
        /\ ( /\ last'.op = "post_delete"
             /\ last'.target \in Posts
             /\ Wired(last'.target)
             /\ ~DISABLE_AUDIT_TRAIL
             /\ deleting.instance.has_ids
             /\ "comment_set" \in DOMAIN deleting.instance.ids
             /\ last'.raised = "none" )
           => /\ Len(log') > Len(log)
              /\ log'[Len(log) + 1].kind = "Deleted"
              /\ log'[Len(log) + 1].subject = last'.target
              /\ \A c \in Comments :
                    Cardinality(RelatedChanges(log', Len(log) + 1, c)) =
                       IF c \in Range(deleting.instance.ids["comment_set"])
                       THEN 1 ELSE 0
      ]_vars

(***************************************************************************)
(* C8: under a watcher with track_only_with_related, a create, update or   *)
(* delete of an instance without a parent (every notify relation a null    *)
(* reference, or an empty collection with no severed ids) persists no      *)
(* record and leaves the stored before-snapshot as it was; with a parent   *)
(* that exists the step is not skipped: it persists its Created or Deleted *)
(* record, or its Updated record when a field changed.                     *)
(***************************************************************************)
Gated(op) ==
    /\ last'.op = op
    /\ Wired(last'.target)
    /\ Watcher(last'.target).track_only_with_related
    /\ ~DISABLE_AUDIT_TRAIL

Appended(kind) ==
    \E i \in DOMAIN log' : /\ i > Len(log)
                           /\ log'[i].kind = kind
                           /\ log'[i].subject = last'.target

C8_RequiresParentGate ==
    [][ LET w == Watcher(last'.target)
        IN  /\ (Gated("post_save") /\ last'.created) =>
                 /\ NoParent(handle', rows', w) => log' = log
                 /\ (HasParent(handle', rows', w) /\ last'.raised = "none")
                       => Appended("Created")
            /\ (Gated("post_save") /\ ~last'.created) =>
                 /\ NoParent(handle, rows, w) =>
                       /\ log' = log
                       /\ handle'.original_values = handle.original_values
                 /\ ( /\ HasParent(handle, rows, w)
                      /\ last'.raised = "none"
                      /\ ~NoDifference(handle, w) ) => Appended("Updated")
            /\ Gated("post_delete") =>
                 /\ NoParent(deleting.instance, rows, w) => log' = log
                 /\ (HasParent(deleting.instance, rows, w) /\ last'.raised = "none")
                       => Appended("Deleted")
      ]_vars

C8_Witness ==
    /\ Dispatched("post_save")
    /\ ~last.created
    /\ ~DISABLE_AUDIT_TRAIL
    /\ Watcher(last.target).track_only_with_related
    /\ NotifyNames(Watcher(last.target)) # {}
    /\ NoParent(handle, rows, Watcher(last.target))
    /\ ~NoDifference(handle, Watcher(last.target))
    /\ last.raised = "none"
    /\ NewTrails = {}

(***************************************************************************)
(* get_changes on its own: the snapshots and the field list are drawn from *)
(* bounded sets, the foreign key's target row exists or is gone.           *)
(***************************************************************************)
FieldLists(model) ==
    {Nil, <<>>, <<MetaFields(model)[2]>>, MetaFields(model)}

Snapshots(model) ==
    LET f == MetaFields(model)[2]
    IN  {Empty} \cup {[x \in {f} |-> v] : v \in FieldValues(f) \cup {None}}

InitDiff ==
    /\ DISABLE_AUDIT_TRAIL = FALSE
    /\ tracked_models = {}
    /\ audit = [m \in Models |-> Unattached]
    /\ receivers = {}
    /\ \E present \in SUBSET Posts :
          rows = [e \in Entities |->
                    IF e \in present THEN [st |-> "present", vals |-> Empty]
                    ELSE NoRow]
    /\ handle = NoInstance
    /\ deleting = NoDelete
    /\ log = <<>>
    /\ \E model \in Models : \E fields \in FieldLists(model) :
       \E old_values \in Snapshots(model) : \E new_values \in Snapshots(model) :
          last = [NoStep EXCEPT !.op = "call", !.target = model,
                     !.arg = [fields |-> fields, old_values |-> old_values,
                              new_values |-> new_values]]

GetChanges ==
    /\ last.op = "call"
    /\ last' = [last EXCEPT
                  !.op = "get_changes",
                  !.ret = get_changes(AuditTrailWatcher(last.arg.fields, Nil, Nil,
                                                        FALSE, Nil),
                                      last.target, last.arg.old_values,
                                      last.arg.new_values, Exists(rows))]
    /\ UNCHANGED <<DISABLE_AUDIT_TRAIL, tracked_models, audit, receivers, rows,
                   handle, deleting, log>>

NextDiff == GetChanges

SpecDiff == InitDiff /\ [][NextDiff]_vars

(***************************************************************************)
(* C9: for all snapshots S1, S2 and field lists F, get_changes returns a   *)
(* diff that is empty exactly when every field of F (all fields when F is  *)
(* unset) renders to the same value in S1 and S2, a missing key counting   *)
(* as None; the diff of a snapshot with itself is empty; the keys of a     *)
(* diff are the fields whose rendered values differ, each with its         *)
(* rendered old and new value.                                             *)
(***************************************************************************)
Rendered(model, field_name, values, present) ==
    LET value == Get(values, field_name)
    IN  IF IsForeignKey(model, field_name)
        THEN get_fk_value(field_name, value, present).value
        ELSE IF HasChoices(model, field_name)
        THEN get_choice_value(field_name, value)
        ELSE value

C9_DiffEmptyIffRenderedEqual ==
    last.op = "get_changes"
    => LET model == last.target
           S1 == last.arg.old_values
           S2 == last.arg.new_values
           F == IF Truthy(last.arg.fields)
                THEN Range(last.arg.fields) ELSE Range(MetaFields(model))
           old(f) == Rendered(model, f, S1, Exists(rows))
           new(f) == Rendered(model, f, S2, Exists(rows))
           differing == {f \in F : old(f) # new(f)}
       IN  /\ last.ret.raised = "none"
           /\ last.ret.value = Empty <=> differing = {}
           /\ S1 = S2 => last.ret.value = Empty
           /\ DOMAIN last.ret.value = differing
           /\ \A f \in differing :
                 last.ret.value[f] = [old_value |-> old(f), new_value |-> new(f)]

(***************************************************************************)
(* C10: under every watcher (track_only_with_related with a notify_related *)
(* that was never filled in included) and for every instance, a dispatch   *)
(* that has nothing to do (the switch is set, no parent exists, or the     *)
(* diff of an update is empty) returns normally and persists no record.    *)
(***************************************************************************)
Quiet == last'.raised = "none" /\ log' = log

C10_NothingToDoNeverRaises ==
    [][ LET w == Watcher(last'.target)
            towr == w.track_only_with_related
        IN  /\ ( /\ last'.op = "post_save" /\ Wired(last'.target) /\ last'.created
                 /\ DISABLE_AUDIT_TRAIL \/ (towr /\ NoParent(handle', rows', w)) )
               => Quiet
            /\ ( /\ last'.op = "post_save" /\ Wired(last'.target) /\ ~last'.created
                 /\ \/ DISABLE_AUDIT_TRAIL
                    \/ towr /\ NoParent(handle, rows, w)
                    \/ handle.has_original_values /\ NoDifference(handle, w) )
               => Quiet
            /\ ( /\ last'.op = "pre_delete" /\ Wired(last'.target)
                 /\ DISABLE_AUDIT_TRAIL \/ NotifyNames(w) = {} )
               => Quiet
            /\ ( /\ last'.op = "post_delete" /\ Wired(last'.target)
                 /\ DISABLE_AUDIT_TRAIL \/ (towr /\ NoParent(deleting.instance, rows, w)) )
               => Quiet
      ]_vars

(***************************************************************************)
(* C11: while the cascade of one triggering record runs, a failure to      *)
(* notify one related entity does not keep the others from getting their   *)
(* RelatedChange record: when the store rejects one write of the cascade,  *)
(* at most one of the related entities is left without a record.           *)
(***************************************************************************)
Unnotified(table, T, related) ==
    {y \in related : RelatedChanges(table, T, y) = {}}

C11_CascadeFailureIsolated ==
    [][ LET T == Len(log) + 1
            triggered(kinds) == /\ Wired(last'.target)
                                /\ last'.raised = "PersistenceError"
                                /\ Len(log') >= T
                                /\ log'[T].kind \in kinds
                                /\ log'[T].subject = last'.target
        IN  /\ (last'.op = "post_save" /\ triggered({"Created", "Updated"}))
               => Cardinality(Unnotified(log', T,
                      Related(handle', rows', Watcher(last'.target)))) <= 1
            /\ ( /\ last'.op = "post_delete" /\ triggered({"Deleted"})
                 /\ last'.target \in Posts
                 /\ deleting.instance.has_ids
                 /\ "comment_set" \in DOMAIN deleting.instance.ids )
               => Cardinality(Unnotified(log', T,
                      Range(deleting.instance.ids["comment_set"]))) <= 1
      ]_vars

(***************************************************************************)
(* C12: a field whose value cannot be rendered (a foreign key whose row is *)
(* gone) does not abort the diff: the field gets a placeholder value, and  *)
(* the step persists its record.  Here: deleting an instance that holds    *)
(* such a reference returns normally and persists the Deleted record,      *)
(* whose changes mention the field.                                        *)
(***************************************************************************)
Dangling(instance, table) ==
    /\ instance.e \in Comments
    /\ instance.vals["post"] \notin Exists(table) \cup {None}

C12_RenderFailureDoesNotAbort ==
    [][ ( /\ last'.op = "post_delete"
          /\ Wired(last'.target)
          /\ ~DISABLE_AUDIT_TRAIL
          /\ ~Watcher(last'.target).track_only_with_related
          /\ Dangling(deleting.instance, rows)
          /\ last'.raised # "PersistenceError" )
        => /\ last'.raised = "none"
           /\ Appended("Deleted")
           /\ "post" \in DOMAIN log'[Len(log) + 1].changes
      ]_vars

(***************************************************************************)
(* C13: the changes of a Deleted record are the diff of the instance's     *)
(* stored before-snapshot (taken at load or at its last recorded save)     *)
(* against the empty snapshot, whatever was assigned to the instance's     *)
(* fields in memory since that snapshot.                                   *)
(***************************************************************************)
C13_DeletedDiffsBeforeSnapshot ==
    [][ ( /\ last'.op = "post_delete"
          /\ Wired(last'.target)
          /\ deleting.instance.has_original_values
          /\ Appended("Deleted") )
        => log'[Len(log) + 1].changes =
              get_changes(Watcher(last'.target), ModelOf(last'.target),
                          deleting.instance.original_values, Empty,
                          Exists(rows)).value
      ]_vars

(***************************************************************************)
(* C14: when the write of the subject's Created, Updated or Deleted record *)
(* fails, the handler does not return normally, no RelatedChange record is *)
(* persisted for the event and the before-snapshot is not refreshed: a     *)
(* step that has something to record either persists the subject's record *)
(* or raises with the log and the snapshot as they were.                   *)
(***************************************************************************)
Surfaced == last'.raised # "none" /\ log' = log

C14_PersistenceFailureSurfaced ==
    [][ LET w == Watcher(last'.target)
            recording(op) == /\ last'.op = op
                             /\ Wired(last'.target)
                             /\ ~DISABLE_AUDIT_TRAIL
        IN  /\ ( /\ recording("post_save") /\ last'.created
                 /\ GateOpen(handle', rows', w) )
               => Appended("Created") \/ Surfaced
            /\ ( /\ recording("post_save") /\ ~last'.created
                 /\ GateOpen(handle, rows, w)
                 /\ handle.has_original_values
                 /\ ~NoDifference(handle, w) )
               => \/ Appended("Updated")
                  \/ Surfaced /\ handle'.original_values = handle.original_values
            /\ ( /\ recording("post_delete")
                 /\ GateOpen(deleting.instance, rows, w) )
               => Appended("Deleted") \/ Surfaced
      ]_vars

C14_Witness ==
    /\ Dispatched("post_save")
    /\ ~last.created
    /\ ~DISABLE_AUDIT_TRAIL
    /\ last.raised = "PersistenceError"
    /\ NewTrails = {}
    /\ GateOpen(handle, rows, Watcher(last.target))
    /\ Related(handle, rows, Watcher(last.target)) # {}
    /\ ~NoDifference(handle, Watcher(last.target))

(***************************************************************************)
(* C15: within one dispatch the order is fixed.  The diff of an Updated    *)
(* record is taken against the before-snapshot the instance held when the  *)
(* dispatch began; the subject's record is the first row the dispatch      *)
(* writes; every RelatedChange row written by the dispatch comes after it  *)
(* and its related_trail is that row.  The table only grows, so in every   *)
(* reachable table a RelatedChange row refers to an earlier row.           *)
(***************************************************************************)
C15_OrderWithinDispatch ==
    [][ LET T == Len(log) + 1
        IN  /\ Len(log') >= Len(log)
            /\ SubSeq(log', 1, Len(log)) = log
            /\ \A j \in DOMAIN log' :
                  j > Len(log) =>
                     IF j = T
                     THEN /\ log'[j].kind \in {"Created", "Updated", "Deleted"}
                          /\ log'[j].subject = last'.target
                     ELSE /\ log'[j].kind = "RelatedChange"
                          /\ log'[j].related_trail = T
            /\ (last'.op = "post_save" /\ ~last'.created /\ Len(log') >= T)
               => log'[T].changes =
                     get_changes(Watcher(last'.target), ModelOf(last'.target),
                                 handle.original_values,
                                 serialize_object(Watcher(last'.target), handle),
                                 Exists(rows')).value
      ]_vars

C15_Witness ==
    /\ Dispatched("post_save")
    /\ ~last.created
    /\ \E T \in NewTrails : \E j \in NewTrails :
          /\ log[T].kind = "Updated"
          /\ log[j].kind = "RelatedChange"
          /\ log[j].related_trail = T
          /\ T < j

(***************************************************************************)
(* Registration and activation on their own, with watchers that are also   *)
(* constructed with an explicit notify_related.                            *)
(***************************************************************************)
ResolveChoices(model) ==
    LET own == IF model = "Post" THEN "comment_set" ELSE "post"
        given == IF model = "Post" THEN "author" ELSE "thread"
    IN  {AuditTrailWatcher(Nil, track_related, notify_related, FALSE, Nil) :
            track_related \in {Nil, <<own>>}, notify_related \in {Nil, <<given>>}}

NextResolve ==
    \/ \E model \in Models : \E w \in ResolveChoices(model) : Register(model, w)
    \/ Activate

SpecResolve == Init /\ [][NextResolve]_vars

(***************************************************************************)
(* C16: after init_audit_instances, for every tracked model A and every    *)
(* relation in A's track_related, the related model's notify_related       *)
(* contains the name that leads back to A (Post.comment_set gives          *)
(* Comment 'post', Comment.post gives Post 'comment_set'), and whatever a  *)
(* notify_related held before is still there, in place: the resolution     *)
(* adds to the list and never replaces it.                                 *)
(***************************************************************************)
IsPrefix(s, t) == Len(s) <= Len(t) /\ SubSeq(t, 1, Len(s)) = s

C16_ResolutionMerges ==
    [][ last'.op = "activate"
        => /\ ("Post" \in tracked_models /\ audit["Post"].track_related = <<"comment_set">>)
              => "post" \in NotifyNames(audit'["Comment"])
           /\ ("Comment" \in tracked_models /\ audit["Comment"].track_related = <<"post">>)
              => "comment_set" \in NotifyNames(audit'["Post"])
           /\ \A m \in Models :
                 audit[m].notify_related # Nil
                 => /\ audit'[m].notify_related # Nil
                    /\ IsPrefix(audit[m].notify_related, audit'[m].notify_related)
      ]_vars

C16_Witness ==
    /\ last.op = "activate"
    /\ audit["Post"].notify_related = <<"author", "comment_set">>
    /\ audit["Comment"].track_related = <<"post">>

(***************************************************************************)
(* C17: init_audit_instances is idempotent.  Running it when the tracked   *)
(* models are already wired leaves every model's receivers and             *)
(* notify_related as they were, so that one recorded change gives a        *)
(* related entity at most one RelatedChange record.                        *)
(***************************************************************************)
C17_ActivationIdempotent ==
    [][ /\ (last'.op = "activate" /\ receivers # {} /\ tracked_models \subseteq receivers)
           => /\ receivers' = receivers
              /\ audit' = audit
        /\ (last'.op \in {"post_save", "post_delete"} /\ Wired(last'.target))
           => \A y \in Entities :
                 Cardinality(RelatedChanges(log', Len(log) + 1, y)) <= 1
      ]_vars

(***************************************************************************)
(* C18: the watcher init_related_signals gives a related model that has    *)
(* none requires a parent and tracks no fields of its own: no Created,     *)
(* Updated or Deleted record of an entity under such a watcher carries     *)
(* changes of the entity's own fields.                                     *)
(***************************************************************************)
\* the watcher of line 80, whatever its notify_related has grown to
IsShadow(w) ==
    /\ w.fields = Nil
    /\ w.track_related = Nil
    /\ w.track_only_with_related
    /\ w.excluded_fields = <<"id">>

C18_ShadowRecordsNoOwnChanges ==
    \A i \in DOMAIN log :
       ( /\ log[i].kind \in {"Created", "Updated", "Deleted"}
         /\ IsShadow(Watcher(log[i].subject)) )
       => log[i].changes = Empty

(***************************************************************************)
(* C19: every dispatch ends after a bounded number of writes, also when    *)
(* Post and Comment each track the other: a RelatedChange row does not set *)
(* off the cascade of the entity it is about.  The rows of one dispatch    *)
(* are the subject's record and RelatedChange rows that refer to it, each  *)
(* about an entity directly related to the subject, never the subject.     *)
(***************************************************************************)
Notified(instance, w) ==
    IF ModelOf(instance.e) = "Comment"
    THEN IF "post" \in NotifyNames(w) /\ instance.vals["post"] # None
         THEN {instance.vals["post"]} ELSE {}
    ELSE IF /\ "comment_set" \in NotifyNames(w)
            /\ instance.has_ids
            /\ "comment_set" \in DOMAIN instance.ids
         THEN Range(instance.ids["comment_set"]) ELSE {}

C19_CascadeOneLevel ==
    [][ (last'.op \in {"post_save", "post_delete"} /\ Wired(last'.target))
        => LET T == Len(log) + 1
               w == Watcher(last'.target)
               direct == IF last'.op = "post_save"
                         THEN Related(handle', rows', w)
                         ELSE Notified(deleting.instance, w)
           IN  /\ Len(log') - Len(log)
                     <= 1 + Len(w.notify_related) * Cardinality(Entities)
               /\ \A j \in DOMAIN log' :
                     j > T => /\ log'[j].kind = "RelatedChange"
                              /\ log'[j].related_trail = T
                              /\ log'[j].subject \in direct
                              /\ log'[j].subject # last'.target
      ]_vars

C19_Witness ==
    /\ Dispatched("post_save")
    /\ Truthy(audit["Post"].track_related)
    /\ Truthy(audit["Comment"].track_related)
    /\ last.raised = "none"
    /\ \E T \in NewTrails : \E j \in NewTrails :
          /\ log[T].subject = last.target
          /\ log[j].kind = "RelatedChange"
          /\ log[j].related_trail = T

(***************************************************************************)
(* One instance handle and its history: the watchers are registered and    *)
(* wired, Post p1 has a row, Comment c1 has one or not; the host holds one *)
(* instance (loaded, or constructed and saved), assigns to its fields and  *)
(* saves it, with the switch on or off.  Comment c1's foreign key can also *)
(* be changed by a QuerySet.update(), which sends no signal.  last.arg     *)
(* keeps the before-snapshot the handle got when it was loaded or          *)
(* constructed.                                                            *)
(***************************************************************************)
MaxHistory == 3       \* the host saves only while Len(log) < MaxHistory

NoRegistry == [tracked |-> {}, audit |-> [m \in Models |-> Unattached], receivers |-> {}]

\* the registry after the class bodies of `chosen` and one init_audit_instances
Activated(chosen, order) ==
    LET R1 == IF "Post" \in DOMAIN chosen
              THEN contribute_to_class(NoRegistry, chosen["Post"], "Post").reg
              ELSE NoRegistry
        R2 == IF "Comment" \in DOMAIN chosen
              THEN contribute_to_class(R1, chosen["Comment"], "Comment").reg
              ELSE R1
    IN  init_audit_instances(R2, order, 1)

Registrations ==
    UNION {[S -> UNION {WatcherChoices(m) : m \in S}] : S \in (SUBSET Models) \ {{}}}

InitHandle ==
    /\ DISABLE_AUDIT_TRAIL = FALSE
    /\ \E chosen \in Registrations :
          /\ \A m \in DOMAIN chosen : chosen[m] \in WatcherChoices(m)
          /\ \E order \in Orders(DOMAIN chosen) :
                LET R == Activated(chosen, order)
                IN  /\ tracked_models = R.tracked
                    /\ audit = R.audit
                    /\ receivers = R.receivers
    /\ \E status \in FieldValues("status") : \E c \in {NoRow} \cup
             {[st |-> "present", vals |-> [post |-> v]] : v \in {None, "p1"}} :
          rows = [e \in Entities |->
                    IF e = "p1" THEN [st |-> "present", vals |-> [status |-> status]]
                    ELSE IF e = "c1" THEN c ELSE NoRow]
    /\ deleting = NoDelete
    /\ log = <<>>
    /\ \E e \in {None, "p1", "c1"} :
          /\ e # None => rows[e].st = "present"
          /\ handle = IF e = None THEN NoInstance ELSE FromRow(e)
          /\ last = [NoStep EXCEPT !.arg = handle.original_values]

Saving == Len(log) < MaxHistory

\* Comment(**vals).save() when the host holds no instance yet
HandleCreate(e, vals, fail) ==
    /\ Saving
    /\ handle = NoInstance
    /\ e \in Comments
    /\ rows[e].st = "none"
    /\ \A d \in Earlier(e) : rows[d].st # "none"
    /\ LET instance == post_init([NoInstance EXCEPT !.e = e, !.vals = vals])
           r == post_save(WriteRow(World(instance, fail)), TRUE)
       IN  /\ rows' = r.world.rows
           /\ handle' = r.world.instance
           /\ log' = r.world.log
           /\ last' = [Step("post_save", e, TRUE, r.raised)
                          EXCEPT !.arg = instance.original_values]
    /\ UNCHANGED <<DISABLE_AUDIT_TRAIL, tracked_models, audit, receivers, deleting>>

HandleModify(field_name, value) ==
    /\ Saving
    /\ handle.e # None
    /\ field_name \in OwnFields(handle.e)
    /\ value \in Assignable(field_name)
    /\ handle.vals[field_name] # value
    /\ handle' = [handle EXCEPT !.vals[field_name] = value]
    /\ last' = [NoStep EXCEPT !.arg = last.arg]
    /\ UNCHANGED <<DISABLE_AUDIT_TRAIL, tracked_models, audit, receivers,
                   rows, deleting, log>>

HandleSave(fail) ==
    /\ Saving
    /\ handle.e # None
    /\ LET r == post_save(WriteRow(World(handle, fail)), FALSE)
       IN  /\ rows' = r.world.rows
           /\ handle' = r.world.instance
           /\ log' = r.world.log
           /\ last' = [Step("post_save", handle.e, FALSE, r.raised)
                          EXCEPT !.arg = last.arg]
    /\ UNCHANGED <<DISABLE_AUDIT_TRAIL, tracked_models, audit, receivers, deleting>>

HandleSetDisabled ==
    /\ Saving
    /\ DISABLE_AUDIT_TRAIL' = ~DISABLE_AUDIT_TRAIL
    /\ last' = [NoStep EXCEPT !.arg = last.arg]
    /\ UNCHANGED <<tracked_models, audit, receivers, rows, handle, deleting, log>>

\* Comment.objects.filter(pk=c1).update(post=value): no signal is sent
QuerySetUpdate(value) ==
    /\ Saving
    /\ handle.e = "p1"
    /\ rows["c1"].st = "present"
    /\ rows["c1"].vals["post"] # value
    /\ rows' = [rows EXCEPT !["c1"].vals["post"] = value]
    /\ last' = [NoStep EXCEPT !.arg = last.arg]
    /\ UNCHANGED <<DISABLE_AUDIT_TRAIL, tracked_models, audit, receivers,
                   handle, deleting, log>>

NextHandle ==
    \/ \E vals \in InitialValues("c1") : \E fail \in FailChoices :
          HandleCreate("c1", vals, fail)
    \/ \E f \in {"status", "post"} : \E v \in FieldValues(f) : HandleModify(f, v)
    \/ \E fail \in FailChoices : HandleSave(fail)
    \/ HandleSetDisabled
    \/ \E v \in {None, "p1"} : QuerySetUpdate(v)

SpecHandle == InitHandle /\ [][NextHandle]_vars

(***************************************************************************)
(* C20: on one instance handle, after any assignments and saves (saves     *)
(* skipped by the switch, by the gate or by an empty diff included), the   *)
(* old_value of every field of every Updated record is the new_value of    *)
(* the latest earlier Created or Updated record of the entity that         *)
(* mentions the field, or the value the handle's first snapshot held when  *)
(* there is none; and the before-snapshot changes exactly when a Created   *)
(* or Updated record is persisted, to the values then saved.               *)
(***************************************************************************)
Mentions(i, e, f) ==
    {k \in 1..(i - 1) : /\ log[k].subject = e
                        /\ log[k].kind \in {"Created", "Updated"}
                        /\ f \in DOMAIN log[k].changes}

PreviousValue(i, e, f) ==
    IF Mentions(i, e, f) = {}
    THEN Rendered(ModelOf(e), f, last.arg, Exists(rows))
    ELSE LET k == CHOOSE k \in Mentions(i, e, f) : \A m \in Mentions(i, e, f) : m <= k
         IN  log[k].changes[f].new_value

Continuous ==
    handle.e # None
    => \A i \in DOMAIN log :
          (log[i].kind = "Updated" /\ log[i].subject = handle.e)
          => \A f \in DOMAIN log[i].changes :
                log[i].changes[f].old_value = PreviousValue(i, handle.e, f)

====
